---- MODULE Spec2Model ----
(***************************************************************************)
(* A model of package env (cesp99/go-env): LoadEnv and GetEnv over a       *)
(* .env file.  A string is a sequence of one-character strings.  The file  *)
(* is the sequence of its lines as bufio.Scanner (ScanLines) yields them.  *)
(* The process environment is a set of <<key, value>> pairs with at most   *)
(* one pair per key.                                                       *)
(***************************************************************************)
EXTENDS Naturals, Sequences, FiniteSets

VARIABLES
    file,       \* the lines of the file at the path given to the calls
    env,        \* the process environment
    pc,         \* "idle", or the call whose scan loop is running: "load", "get"
    key,        \* GetEnv's key argument of the running / last call
    pos,        \* number of whole lines the scanner has yielded in this call
    trunc,      \* the cut-short last token yielded after a read error, or <<>>
    faulted,    \* the scanner holds a read error (scanner.Err() # nil)
    openFailed, \* os.Open failed in the last call
    handles,    \* number of open file handles
    ret,        \* what the last call returned
    env0,       \* history: the environment when the running / last call began
    hist        \* history: the LoadEnv successes in a row (counted to 2) and the
                \* environment after the last two of them

vars == <<file, env, pc, key, pos, trunc, faulted, openFailed, handles, ret, env0, hist>>

----------------------------------------------------------------------------
(* Bounds *)

\* Longest file of the call-level specification, in lines.
MaxLines == 2

\* Longest line of the line-level specification, in characters.
MaxLineLen == 5

----------------------------------------------------------------------------
(* Characters *)

\* Stands for the byte 0.
NUL == "NUL"

\* unicode.IsSpace, as strings.TrimSpace uses it (the members that occur here).
Space == {" ", "\t"}

\* The cutset of strings.Trim(value, `"'`).
Quotes == {"\"", "'"}

Range(s) == {s[i] : i \in 1..Len(s)}

----------------------------------------------------------------------------
(* Go's strings package *)

\* strings.Trim(s, cutset): s without every leading and every trailing
\* character that is in cutset.
Trim(s, cutset) ==
    LET keep == {i \in 1..Len(s) : s[i] \notin cutset}
    IN  IF keep = {} THEN <<>>
        ELSE LET first == CHOOSE i \in keep : \A j \in keep : i <= j
                 last  == CHOOSE i \in keep : \A j \in keep : j <= i
             IN  SubSeq(s, first, last)

\* A TrimSpace that only trims the left side.
TrimSpaceLeftOnly(s) ==
    LET keep == {i \in 1..Len(s) : s[i] \notin Space}
    IN  IF keep = {} THEN <<>>
        ELSE SubSeq(s, CHOOSE i \in keep : \A j \in keep : i <= j, Len(s))

\* strings.TrimSpace(s)
TrimSpace(s) == Trim(s, Space)

\* strings.HasPrefix(line, "#")
HasPrefixHash(line) == Len(line) > 0 /\ line[1] = "#"

\* strings.SplitN(line, "=", 2): the line itself when it holds no "=", else
\* what is before the first "=" and what is after it.
SplitN2(line) ==
    LET eqs == {i \in 1..Len(line) : line[i] = "="}
    IN  IF eqs = {} THEN <<line>>
        ELSE LET i == CHOOSE i \in eqs : \A j \in eqs : i <= j
             IN  <<SubSeq(line, 1, i - 1), SubSeq(line, i + 1, Len(line))>>

----------------------------------------------------------------------------
(* The process environment *)

\* os.Getenv(k): the value of k, "" when k is unset.
Getenv(e, k) ==
    IF \E p \in e : p[1] = k THEN (CHOOSE p \in e : p[1] = k)[2] ELSE <<>>

\* syscall.Setenv's EINVAL: an empty key, a key holding "=" or the byte 0, a
\* value holding the byte 0.
SetenvRejects(k, v) ==
    k = <<>> \/ "=" \in Range(k) \/ NUL \in Range(k) \/ NUL \in Range(v)

\* A Setenv that keeps the value a key already has.
SetenvKeepFirst(e, k, v) ==
    IF SetenvRejects(k, v) \/ (\E p \in e : p[1] = k) THEN e
    ELSE e \cup {<<k, v>>}

\* A Setenv that appends to the value a key already has.
SetenvAppend(e, k, v) ==
    IF SetenvRejects(k, v) THEN e
    ELSE {p \in e : p[1] # k} \cup {<<k, Getenv(e, k) \o v>>}

\* os.Setenv(key, value), its error discarded as LoadEnv discards it: the
\* write replaces any value of k, and a rejected write changes nothing.
Setenv(e, k, v) ==
    IF SetenvRejects(k, v) THEN e
    ELSE {p \in e : p[1] # k} \cup {<<k, v>>}

----------------------------------------------------------------------------
(* The loop bodies *)

\* LoadEnv's loop body without the quote trimming.
LoadEnvLineNoUnquote(e, line) ==
    IF line = <<>> \/ HasPrefixHash(line) THEN e
    ELSE LET parts == SplitN2(line)
         IN  IF Len(parts) # 2 THEN e
             ELSE Setenv(e, TrimSpace(parts[1]), TrimSpace(parts[2]))

\* LoadEnv's loop body with a one-sided TrimSpace.
LoadEnvLineLeftTrim(e, line) ==
    IF line = <<>> \/ HasPrefixHash(line) THEN e
    ELSE LET parts == SplitN2(line)
         IN  IF Len(parts) # 2 THEN e
             ELSE LET k == TrimSpaceLeftOnly(parts[1])
                      value == TrimSpaceLeftOnly(parts[2])
                  IN  Setenv(e, k, Trim(value, Quotes))

\* LoadEnv's loop body: the environment after the line is processed.
LoadEnvLine(e, line) ==
    IF line = <<>> \/ HasPrefixHash(line) THEN e
    ELSE LET parts == SplitN2(line)
         IN  IF Len(parts) # 2 THEN e
             ELSE LET k == TrimSpace(parts[1])
                      value == TrimSpace(parts[2])
                  IN  Setenv(e, k, Trim(value, Quotes))

NoMatch == [found |-> FALSE, value |-> <<>>]

\* GetEnv's loop body comparing the untrimmed key segment.
GetEnvLineRawKey(line, k) ==
    IF line = <<>> \/ HasPrefixHash(line) THEN NoMatch
    ELSE LET parts == SplitN2(line)
         IN  IF Len(parts) # 2 THEN NoMatch
             ELSE IF parts[1] = k
                  THEN [found |-> TRUE,
                        value |-> Trim(TrimSpace(parts[2]), Quotes)]
                  ELSE NoMatch

\* GetEnv's loop body matching any key that begins with the target key.
GetEnvLinePrefix(line, k) ==
    IF line = <<>> \/ HasPrefixHash(line) THEN NoMatch
    ELSE LET parts == SplitN2(line)
         IN  IF Len(parts) # 2 THEN NoMatch
             ELSE LET pk == TrimSpace(parts[1])
                  IN  IF Len(pk) >= Len(k) /\ SubSeq(pk, 1, Len(k)) = k
                      THEN [found |-> TRUE,
                            value |-> Trim(TrimSpace(parts[2]), Quotes)]
                      ELSE NoMatch

\* GetEnv's loop body: whether the line makes GetEnv return, and the value.
GetEnvLine(line, k) ==
    IF line = <<>> \/ HasPrefixHash(line) THEN NoMatch
    ELSE LET parts == SplitN2(line)
         IN  IF Len(parts) # 2 THEN NoMatch
             ELSE IF TrimSpace(parts[1]) = k
                  THEN [found |-> TRUE,
                        value |-> Trim(TrimSpace(parts[2]), Quotes)]
                  ELSE NoMatch

----------------------------------------------------------------------------
(* The file handle and the scanner *)

\* A deferred Close that is missing.
CloseLeaks(h) == h

\* defer file.Close()
DeferredClose(h) == h - 1

\* A return that drops the scanner's error.
ScannerErrDropped(f) == FALSE

\* scanner.Err(): the read error the scanner holds, nil (FALSE) at a clean
\* end of file.
ScannerErr(f) == f

\* The tokens a read error can cut out of a line: the scanner hands the
\* split function what it has buffered, and ScanLines yields a non-empty
\* rest as a last token.
Cuts(line) == {SubSeq(line, 1, n) : n \in 1..(Len(line) - 1)}

\* scanner.Scan() returning true: the tokens it can yield next, each with the
\* scanner's state after it.  The next whole line, or, when the read fails
\* inside that line, a cut-short token.
ScanYields ==
    IF faulted \/ pos >= Len(file) THEN {}
    ELSE {[tok |-> file[pos + 1], pos |-> pos + 1, trunc |-> <<>>, faulted |-> FALSE]}
         \cup {[tok |-> c, pos |-> pos, trunc |-> c, faulted |-> TRUE] :
                  c \in Cuts(file[pos + 1])}

\* scanner.Scan() returning false: the values of faulted it can end with.  A
\* held read error ends the scan; otherwise the end of the file ends it
\* cleanly, and a read that fails with nothing buffered ends it with an error.
ScanEnds ==
    IF faulted THEN {TRUE}
    ELSE IF pos >= Len(file) THEN {FALSE, TRUE}
    ELSE {TRUE}

----------------------------------------------------------------------------
(* Results and history *)

NoRet == [op |-> "none", val |-> <<>>, err |-> FALSE]

\* No LoadEnv has succeeded since the last LoadEnv that failed.
NoHist == [count |-> 0, prev |-> {}, last |-> {}]

\* The keys given as GetEnv's key argument.
SearchKeys == {<<>>, <<"a">>, <<"b">>, <<"c">>}

\* The lines the files of the call-level specification are made of.
Lines ==
    { <<>>,                                      \* an empty line
      <<"#", "a", "=", "9">>,                    \* a comment
      <<" ", "a">>,                              \* a line without "="
      <<"a", "=", "1">>,
      <<"a", "=", "2">>,
      <<" ", "a", " ", "=", "\t", "3", " ">>,    \* whitespace around both
      <<"a", "=", "\"", " ", "x", "\"">>,        \* a quoted value
      <<"a", "=", "'", "\"">>,                   \* only quotes
      <<"b", "=", "1", "=", "2">>,               \* "=" in the value
      <<"b", "=", NUL>>,                         \* a value os.Setenv rejects
      <<"A", "=", "4">>,                         \* another case of the key
      <<"=", "1">> }                             \* an empty key

Files == UNION {[1..n -> Lines] : n \in 0..MaxLines}

\* The environment the process starts with: "a" and "c" are set, every other
\* key is unset.
InitEnv == {<<<<"a">>, <<"o", "l", "d">>>>, <<<<"c">>, <<"k">>>>}

Init ==
    /\ file \in Files
    /\ env = InitEnv
    /\ pc = "idle"
    /\ key = <<>>
    /\ pos = 0
    /\ trunc = <<>>
    /\ faulted = FALSE
    /\ openFailed = FALSE
    /\ handles = 0
    /\ ret = NoRet
    /\ env0 = env
    /\ hist = NoHist

----------------------------------------------------------------------------
(* LoadEnv *)

\* os.Open fails: LoadEnv returns the error.
LoadEnvOpenFails ==
    /\ pc = "idle"
    /\ openFailed' = TRUE
    /\ ret' = [op |-> "load", val |-> <<>>, err |-> TRUE]
    /\ key' = <<>>
    /\ pos' = 0
    /\ trunc' = <<>>
    /\ faulted' = FALSE
    /\ env0' = env
    /\ hist' = NoHist
    /\ UNCHANGED <<file, env, pc, handles>>

\* os.Open succeeds, Close is deferred, the scanner is made.
LoadEnvOpen ==
    /\ pc = "idle"
    /\ pc' = "load"
    /\ handles' = handles + 1
    /\ openFailed' = FALSE
    /\ ret' = NoRet
    /\ key' = <<>>
    /\ pos' = 0
    /\ trunc' = <<>>
    /\ faulted' = FALSE
    /\ env0' = env
    /\ UNCHANGED <<file, env, hist>>

\* scanner.Scan() is true: one run of the loop body.
LoadEnvScan ==
    /\ pc = "load"
    /\ \E y \in ScanYields :
          /\ env' = LoadEnvLine(env, y.tok)
          /\ pos' = y.pos
          /\ trunc' = y.trunc
          /\ faulted' = y.faulted
    /\ UNCHANGED <<file, pc, key, openFailed, handles, ret, env0, hist>>

\* scanner.Scan() is false: return scanner.Err(), and the deferred Close runs.
LoadEnvReturn ==
    /\ pc = "load"
    /\ \E f \in ScanEnds :
          /\ faulted' = f
          /\ ret' = [op |-> "load", val |-> <<>>, err |-> ScannerErr(f)]
          /\ hist' = IF ScannerErr(f) THEN NoHist
                     ELSE [count |-> IF hist.count = 0 THEN 1 ELSE 2,
                           prev |-> hist.last, last |-> env]
    /\ handles' = DeferredClose(handles)
    /\ pc' = "idle"
    /\ UNCHANGED <<file, env, key, pos, trunc, openFailed, env0>>

----------------------------------------------------------------------------
(* GetEnv *)

\* os.Open fails: GetEnv returns "" and the error.
GetEnvOpenFails ==
    /\ pc = "idle"
    /\ \E k \in SearchKeys : key' = k
    /\ openFailed' = TRUE
    /\ ret' = [op |-> "get", val |-> <<>>, err |-> TRUE]
    /\ pos' = 0
    /\ trunc' = <<>>
    /\ faulted' = FALSE
    /\ env0' = env
    /\ UNCHANGED <<file, env, pc, handles, hist>>

\* os.Open succeeds, Close is deferred, the scanner is made.
GetEnvOpen ==
    /\ pc = "idle"
    /\ \E k \in SearchKeys : key' = k
    /\ pc' = "get"
    /\ handles' = handles + 1
    /\ openFailed' = FALSE
    /\ ret' = NoRet
    /\ pos' = 0
    /\ trunc' = <<>>
    /\ faulted' = FALSE
    /\ env0' = env
    /\ UNCHANGED <<file, env, hist>>

\* A loop body of GetEnv that also exports the pair it finds.
GetEnvScanExports ==
    /\ pc = "get"
    /\ \E y \in ScanYields :
          LET m == GetEnvLine(y.tok, key)
          IN  /\ pos' = y.pos
              /\ trunc' = y.trunc
              /\ faulted' = y.faulted
              /\ IF m.found
                 THEN /\ ret' = [op |-> "get", val |-> m.value, err |-> FALSE]
                      /\ handles' = DeferredClose(handles)
                      /\ env' = Setenv(env, key, m.value)
                      /\ pc' = "idle"
                 ELSE UNCHANGED <<ret, handles, pc, env>>
    /\ UNCHANGED <<file, key, openFailed, env0, hist>>

\* scanner.Scan() is true: one run of the loop body; on a match GetEnv
\* returns the value and the deferred Close runs.
GetEnvScan ==
    /\ pc = "get"
    /\ \E y \in ScanYields :
          LET m == GetEnvLine(y.tok, key)
          IN  /\ pos' = y.pos
              /\ trunc' = y.trunc
              /\ faulted' = y.faulted
              /\ IF m.found
                 THEN /\ ret' = [op |-> "get", val |-> m.value, err |-> FALSE]
                      /\ handles' = DeferredClose(handles)
                      /\ pc' = "idle"
                 ELSE UNCHANGED <<ret, handles, pc>>
    /\ UNCHANGED <<file, env, key, openFailed, env0, hist>>

\* scanner.Scan() is false: return "" and scanner.Err(), and the deferred
\* Close runs.
GetEnvReturn ==
    /\ pc = "get"
    /\ \E f \in ScanEnds :
          /\ faulted' = f
          /\ ret' = [op |-> "get", val |-> <<>>, err |-> ScannerErr(f)]
    /\ handles' = DeferredClose(handles)
    /\ pc' = "idle"
    /\ UNCHANGED <<file, env, key, pos, trunc, openFailed, env0, hist>>

----------------------------------------------------------------------------

Next ==
    \/ LoadEnvOpenFails
    \/ LoadEnvOpen
    \/ LoadEnvScan
    \/ LoadEnvReturn
    \/ GetEnvOpenFails
    \/ GetEnvOpen
    \/ GetEnvScan
    \/ GetEnvReturn

Spec == Init /\ [][Next]_vars

----------------------------------------------------------------------------
(* One line through each loop body *)

\* The characters the lines of the line-level specification are made of.
Chars == {"a", " ", "=", "#", "\"", "'", NUL}

AllLines == UNION {[1..n -> Chars] : n \in 0..MaxLineLen}

InitLine ==
    /\ \E l \in AllLines : file = <<l>>
    /\ env = {}
    /\ pc = "idle"
    /\ key = <<>>
    /\ pos = 0
    /\ trunc = <<>>
    /\ faulted = FALSE
    /\ openFailed = FALSE
    /\ handles = 0
    /\ ret = NoRet
    /\ env0 = env
    /\ hist = NoHist

\* LoadEnv's loop body on the line.
ApplyLoadEnvLine ==
    /\ ret.op = "none"
    /\ env' = LoadEnvLine(env, file[1])
    /\ pos' = 1
    /\ ret' = [op |-> "load", val |-> <<>>, err |-> FALSE]
    /\ UNCHANGED <<file, pc, key, trunc, faulted, openFailed, handles, env0, hist>>

\* GetEnv's loop body on the line, for some key.
ApplyGetEnvLine ==
    /\ ret.op = "none"
    /\ \E k \in SearchKeys :
          /\ key' = k
          /\ ret' = [op |-> "get", val |-> GetEnvLine(file[1], k).value, err |-> FALSE]
    /\ pos' = 1
    /\ UNCHANGED <<file, env, pc, trunc, faulted, openFailed, handles, env0, hist>>

NextLine ==
    \/ ApplyLoadEnvLine
    \/ ApplyGetEnvLine

SpecLine == InitLine /\ [][NextLine]_vars

----------------------------------------------------------------------------
(* What the claims speak of, read off the file itself *)

\* An entry line: not empty, not starting with "#", holding "=".
IsEntryLine(l) == l # <<>> /\ l[1] # "#" /\ "=" \in Range(l)

\* The place of the first "=" of an entry line.
FirstEq(l) == CHOOSE i \in 1..Len(l) : l[i] = "=" /\ \A j \in 1..(i - 1) : l[j] # "="

KeySegment(l) == SubSeq(l, 1, FirstEq(l) - 1)

ValueSegment(l) == SubSeq(l, FirstEq(l) + 1, Len(l))

\* The whitespace-trimmed key segment of an entry line.
EntryKey(l) == TrimSpace(KeySegment(l))

\* The value segment of an entry line, trimmed of whitespace.
TrimmedValue(l) == TrimSpace(ValueSegment(l))

\* The value of an entry line as the package normalizes it.
NormalizedValue(l) == Trim(TrimmedValue(l), Quotes)

\* The normalization the specification describes: one matching pair of outer
\* quotes is removed, once.
RefNormalize(t) ==
    IF Len(t) >= 2 /\ t[1] \in Quotes /\ t[Len(t)] = t[1]
    THEN SubSeq(t, 2, Len(t) - 1)
    ELSE t

NoOuterSpace(s) == s = <<>> \/ (s[1] \notin Space /\ s[Len(s)] \notin Space)

\* The entry lines of f, and those with key k.
EntryIdx(f) == {i \in 1..Len(f) : IsEntryLine(f[i])}

KeyIdx(f, k) == {i \in EntryIdx(f) : EntryKey(f[i]) = k}

\* The lines with key k whose write the host accepts.
AcceptedIdx(f, k) == {i \in KeyIdx(f, k) : ~SetenvRejects(k, NormalizedValue(f[i]))}

Least(S) == CHOOSE i \in S : \A j \in S : i <= j

Greatest(S) == CHOOSE i \in S : \A j \in S : j <= i

EnvKeys(e) == {p[1] : p \in e}

\* The tokens the scanner yielded in the running / last call.
Yielded == SubSeq(file, 1, pos) \o (IF trunc = <<>> THEN <<>> ELSE <<trunc>>)

LoadEnvSucceeded == pc = "idle" /\ ret.op = "load" /\ ~ret.err

\* GetEnv has returned, after an open that succeeded and reads without fault.
GetEnvReturnedClean == pc = "idle" /\ ret.op = "get" /\ ~openFailed /\ ~faulted

----------------------------------------------------------------------------
(* The claims *)

\* C1, as stated: after LoadEnv returns without error, the environment value
\* of every key of an entry line is the normalized value of the last entry
\* line with that key.
C1_LastLineWinsEveryKey ==
    LoadEnvSucceeded =>
        \A i \in EntryIdx(file) :
            LET k == EntryKey(file[i])
            IN  Getenv(env, k) = NormalizedValue(file[Greatest(KeyIdx(file, k))])

\* C1, amended: after LoadEnv returns without error, the environment value of
\* every key of an entry line is the normalized value of the last entry line
\* with that key whose write os.Setenv accepts (a non-empty key, no byte 0 in
\* key or value), whatever the key held before; a key none of whose lines is
\* accepted keeps the value it had before the call.
C1_LastAcceptedLineWins ==
    LoadEnvSucceeded =>
        \A i \in EntryIdx(file) :
            LET k == EntryKey(file[i])
                acc == AcceptedIdx(file, k)
            IN  Getenv(env, k) = IF acc # {} THEN NormalizedValue(file[Greatest(acc)])
                                 ELSE Getenv(env0, k)

\* C1 witness: LoadEnv succeeded on a file with two lines for a key that was
\* set before the call, the lines giving different values.
C1_Witness ==
    /\ LoadEnvSucceeded
    /\ \E k \in EnvKeys(env0) :
          /\ Cardinality(AcceptedIdx(file, k)) >= 2
          /\ NormalizedValue(file[Least(AcceptedIdx(file, k))])
                # NormalizedValue(file[Greatest(AcceptedIdx(file, k))])

\* C2: when the file opens and reads without fault and some entry line has
\* the target key, GetEnv returns the normalized value of the first such
\* line with a nil error, having read no line after it.
C2_FirstMatchWins ==
    (GetEnvReturnedClean /\ KeyIdx(file, key) # {}) =>
        /\ ~ret.err
        /\ ret.val = NormalizedValue(file[Least(KeyIdx(file, key))])
        /\ pos = Least(KeyIdx(file, key))

\* C2 witness: GetEnv returned for a key that two lines give different values.
C2_Witness ==
    /\ GetEnvReturnedClean
    /\ Cardinality(KeyIdx(file, key)) >= 2
    /\ ret.val # NormalizedValue(file[Greatest(KeyIdx(file, key))])

\* C3, as stated: the value LoadEnv writes and the value GetEnv returns for a
\* line is the trimmed value segment with one matching pair of outer quotes
\* removed, and unchanged when the quotes do not match or the segment is a
\* single quote character.
C3_MatchedPairOnce ==
    /\ (ret.op = "load" /\ IsEntryLine(file[1])
          /\ ~SetenvRejects(EntryKey(file[1]), ValueSegment(file[1])))
        => Getenv(env, EntryKey(file[1])) = RefNormalize(TrimmedValue(file[1]))
    /\ (ret.op = "get" /\ IsEntryLine(file[1]) /\ EntryKey(file[1]) = key)
        => ret.val = RefNormalize(TrimmedValue(file[1]))

\* C4: while GetEnv runs and when it has returned, whatever its outcome, the
\* environment is what it was when the call began.
C4_GetEnvLeavesEnv ==
    (pc = "get" \/ ret.op = "get") => env = env0

\* C4 witness: GetEnv returned a value that differs from the value the
\* environment holds for that key.
C4_Witness ==
    /\ GetEnvReturnedClean
    /\ KeyIdx(file, key) # {}
    /\ key \in EnvKeys(env)
    /\ ret.val # Getenv(env, key)

\* C5: when the file opens and is read to its end without fault and no entry
\* line has the target key, GetEnv returns "" and a nil error, having read
\* every line.
C5_AbsentKeyEmpty ==
    (GetEnvReturnedClean /\ KeyIdx(file, key) = {}) =>
        /\ ret.val = <<>>
        /\ ~ret.err
        /\ pos = Len(file)

\* C5 witness: GetEnv returned for a key absent from a file whose lines are
\* all entries of other keys.
C5_Witness ==
    /\ GetEnvReturnedClean
    /\ KeyIdx(file, key) = {}
    /\ Len(file) >= 2
    /\ EntryIdx(file) = 1..Len(file)

C7_LoadEnvIdempotent ==
    hist.count = 2 => hist.last = hist.prev

\* C7 witness: LoadEnv succeeded twice on a file with two lines for one key,
\* and it changed the environment the process started with.
C7_Witness ==
    /\ LoadEnvSucceeded
    /\ hist.count = 2
    /\ hist.last # InitEnv
    /\ \E k \in EnvKeys(env) : Cardinality(AcceptedIdx(file, k)) >= 2

\* C8, as stated: every key and value LoadEnv writes, and every value GetEnv
\* returns for a matching line, has no leading and no trailing whitespace.
C8_NoOuterWhitespace ==
    /\ \A p \in env : NoOuterSpace(p[1]) /\ NoOuterSpace(p[2])
    /\ (ret.op = "get" /\ IsEntryLine(file[1]) /\ EntryKey(file[1]) = key)
        => NoOuterSpace(ret.val)

\* The trimmed value segment neither begins nor ends with a quote character.
Unquoted(l) ==
    TrimmedValue(l) = <<>> \/
        (TrimmedValue(l)[1] \notin Quotes /\ TrimmedValue(l)[Len(TrimmedValue(l))] \notin Quotes)

\* C8, amended: every key LoadEnv writes has no leading and no trailing
\* whitespace, and so has every value LoadEnv writes and GetEnv returns for a
\* line whose trimmed value segment neither begins nor ends with a quote
\* character.
C8_NoOuterWhitespaceUnquoted ==
    /\ \A p \in env : NoOuterSpace(p[1]) /\ (Unquoted(file[1]) => NoOuterSpace(p[2]))
    /\ (ret.op = "get" /\ IsEntryLine(file[1]) /\ EntryKey(file[1]) = key
          /\ Unquoted(file[1]))
        => NoOuterSpace(ret.val)

\* C8 witness: LoadEnv's loop body wrote the entry of a line with whitespace
\* around its key segment and around its unquoted value segment.
C8_Witness ==
    /\ ret.op = "load"
    /\ env # {}
    /\ IsEntryLine(file[1])
    /\ ~NoOuterSpace(KeySegment(file[1]))
    /\ ~NoOuterSpace(ValueSegment(file[1]))
    /\ Unquoted(file[1])
    /\ TrimmedValue(file[1]) # <<>>

\* C9, as stated: when the file opens and reads without fault and exactly one
\* entry line has key k, GetEnv(k) returns the value the environment holds
\* for k after LoadEnv succeeded.
C9_GetEnvAgreesWithLoadEnv ==
    (GetEnvReturnedClean /\ ~ret.err /\ hist.count >= 1
       /\ Cardinality(KeyIdx(file, key)) = 1)
        => ret.val = Getenv(hist.last, key)

\* C9, amended: the same, for a key and a line whose write os.Setenv accepts
\* (a non-empty key, no byte 0 in key or value).
C9_GetEnvAgreesWhenAccepted ==
    (GetEnvReturnedClean /\ ~ret.err /\ hist.count >= 1
       /\ Cardinality(KeyIdx(file, key)) = 1
       /\ AcceptedIdx(file, key) # {})
        => ret.val = Getenv(hist.last, key)

\* C9 witness: GetEnv returned the value of the single line of a key, after
\* LoadEnv had succeeded and replaced the value that key had.
C9_Witness ==
    /\ GetEnvReturnedClean
    /\ ~ret.err
    /\ hist.count >= 1
    /\ Cardinality(KeyIdx(file, key)) = 1
    /\ AcceptedIdx(file, key) # {}
    /\ ret.val # <<>>
    /\ key \in EnvKeys(InitEnv)
    /\ ret.val # Getenv(InitEnv, key)

\* C10: a call holds exactly one file handle while its loop runs, and no
\* handle is open when no call runs: none after an open that failed, none
\* after any return.
C10_HandlesClosed ==
    /\ pc = "idle" => handles = 0
    /\ pc # "idle" => handles = 1

\* C10 witness: GetEnv returned on a match before the end of the file.
C10_Witness ==
    /\ GetEnvReturnedClean
    /\ ~ret.err
    /\ KeyIdx(file, key) # {}
    /\ pos < Len(file)
    /\ handles = 0

====
